---- MODULE Spec2Model ----
(***************************************************************************)
(* Model of src/src/run_trial.py: the Simon-task trial runner.             *)
(*                                                                         *)
(* Python values are tagged records, so that int, float, str, None and     *)
(* list stay distinguishable and a conversion between them is visible.     *)
(* Numbers are held in tenths of a second: FloatVal(25) is 2.5 and         *)
(* IntVal(10) is the int 1.  A str is a sequence of one-character strings. *)
(***************************************************************************)
EXTENDS Integers, Sequences, FiniteSets, TLC

VARIABLES
    TRIAL_COUNTER,  \* the module global _TRIAL_COUNTER
    settings,       \* the settings bundle handed to run_trial
    stim_bank,      \* the stimulus bank handed to run_trial
    pc,             \* where the current run_trial invocation stands
    args,           \* its arguments: condition, block_id, block_idx
    trial_id,       \* its local trial_id
    decoded,        \* its locals stim_color, stim_position, correct_response
    trial_data,     \* its local trial_data, the record under construction
    stim_unit,      \* the state of its local stim_unit (empty before capture)
    contexts,       \* the set_trial_context calls it made, in order
    presented,      \* the show / capture_response calls it made, in order
    outcome,        \* what it handed to its caller: a record or an exception
    assigned,       \* every value _next_trial_id has returned, in order
    returned_ids,   \* the trial ids of the invocations that returned a record
    threads,        \* threads inside _next_trial_id, when calls run concurrently
    dl_value,       \* _deadline_s called on its own: the argument `value`
    dl_result       \* _deadline_s called on its own: the value returned

trial_vars == <<TRIAL_COUNTER, settings, stim_bank, pc, args, trial_id, decoded,
                trial_data, stim_unit, contexts, presented, outcome, assigned,
                returned_ids>>
dl_vars == <<dl_value, dl_result>>
aux_vars == <<dl_vars, threads>>
vars == <<trial_vars, dl_vars, threads>>

----------------------------------------------------------------------------
(* Python values *)

IntVal(n) == [t |-> "int", v |-> n]
FloatVal(n) == [t |-> "float", v |-> n]
StrVal(s) == [t |-> "str", s |-> s]
ListVal(xs) == [t |-> "list", items |-> xs]
BoolVal(b) == [t |-> "bool", b |-> b]
NoneVal == [t |-> "NoneType"]
Raised(e) == [t |-> "exception", e |-> e]
Pending == [t |-> "pending"]

IsNumber(x) == x.t \in {"int", "float"}
IsRaised(x) == x.t = "exception"

\* ord() of the characters the model's strings are made of
Ord(c) == CASE c = "0" -> 48 [] c = "1" -> 49 [] c = "2" -> 50 [] c = "a" -> 97

IsDigit(c) == c \in {"0", "1", "2"}

\* str > str: lexicographic on code points, a proper prefix being smaller
RECURSIVE StrGt(_, _)
StrGt(a, b) ==
    IF a = <<>> THEN FALSE
    ELSE IF b = <<>> THEN TRUE
    ELSE IF Head(a) # Head(b) THEN Ord(Head(a)) > Ord(Head(b))
    ELSE StrGt(Tail(a), Tail(b))

\* a > b as max() evaluates it: numbers by value, strings lexicographically,
\* anything else (None, a number against a str) is a TypeError
PyGt(a, b) ==
    IF IsNumber(a) /\ IsNumber(b) THEN BoolVal(a.v > b.v)
    ELSE IF a.t = "str" /\ b.t = "str" THEN BoolVal(StrGt(a.s, b.s))
    ELSE Raised("TypeError")

\* max(iterable) of a non-empty sequence: the first element, replaced by each
\* later element that compares greater; a failing comparison propagates
RECURSIVE MaxFrom(_, _)
MaxFrom(cur, rest) ==
    IF rest = <<>> THEN cur
    ELSE LET gt == PyGt(Head(rest), cur)
         IN  IF IsRaised(gt) THEN gt
             ELSE MaxFrom(IF gt.b THEN Head(rest) ELSE cur, Tail(rest))

PyMax(xs) == MaxFrom(Head(xs), Tail(xs))

\* the decimal value of a string of digits
RECURSIVE DigitsValue(_)
DigitsValue(s) ==
    IF s = <<>> THEN 0
    ELSE 10 * DigitsValue(SubSeq(s, 1, Len(s) - 1)) + (Ord(s[Len(s)]) - Ord("0"))

\* float(x): a number keeps its value and becomes a float, a str is parsed
\* (ValueError when it is no number), None and a list are a TypeError
PyFloat(x) ==
    IF IsRaised(x) THEN x
    ELSE IF IsNumber(x) THEN FloatVal(x.v)
    ELSE IF x.t = "str"
         THEN IF x.s # <<>> /\ \A i \in 1..Len(x.s) : IsDigit(x.s[i])
              THEN FloatVal(10 * DigitsValue(x.s))
              ELSE Raised("ValueError")
    ELSE Raised("TypeError")

----------------------------------------------------------------------------
(* _deadline_s *)

\* a variant with a slip: the first candidate instead of the greatest
deadline_s_first(value) ==
    IF IsNumber(value) THEN FloatVal(value.v)
    ELSE IF value.t = "list" /\ value.items # <<>>
         THEN LET r == PyFloat(Head(value.items))
              IN  IF IsRaised(r) THEN NoneVal ELSE r
    ELSE NoneVal

deadline_s(value) ==
    IF IsNumber(value) THEN FloatVal(value.v)
    ELSE IF value.t = "list" /\ value.items # <<>>
         THEN LET r == PyFloat(PyMax(value.items))
              IN  IF IsRaised(r) THEN NoneVal ELSE r
    ELSE NoneVal

----------------------------------------------------------------------------
(* Duration specifications _deadline_s is applied to *)

MaxCandidates == 3

Numbers == {IntVal(10), IntVal(20), FloatVal(5), FloatVal(10), FloatVal(25)}
Strings == {StrVal(<<"2">>), StrVal(<<"1", "0">>), StrVal(<<"a">>)}
Scalars == Numbers \cup Strings \cup {NoneVal}

SeqsUpTo(S, n) == UNION {[1..k -> S] : k \in 0..n}

DurationSpecs == Scalars \cup {ListVal(xs) : xs \in SeqsUpTo(Scalars, MaxCandidates)}

----------------------------------------------------------------------------
(* Helpers standing for Python built-ins *)

Range(f) == {f[x] : x \in DOMAIN f}

\* bool(x)
Truthy(x) ==
    CASE x.t = "NoneType" -> FALSE
      [] x.t = "bool" -> x.b
      [] x.t = "str" -> x.s # <<>>
      [] x.t = "list" -> x.items # <<>>
      [] IsNumber(x) -> x.v # 0
      [] OTHER -> TRUE

\* dict.get(key): the value, or None when the key is absent
DictGet(d, key) == IF key \in DOMAIN d THEN d[key] ELSE NoneVal

\* str.split(sep) on the pieces of a str: one part more than separators
RECURSIVE SplitFrom(_, _, _)
SplitFrom(s, sep, cur) ==
    IF s = <<>> THEN <<cur>>
    ELSE IF Head(s) = sep THEN <<cur>> \o SplitFrom(Tail(s), sep, <<>>)
    ELSE SplitFrom(Tail(s), sep, Append(cur, Head(s)))

Split(s, sep) == SplitFrom(s, sep, <<>>)

----------------------------------------------------------------------------
(* The StimUnit service, as run_trial uses it *)

\* StimUnit.to_dict(target): the unit's state is merged into target, each
\* field under the unit's label; an entry already there is overwritten
ToDict(label, state, target) ==
    LET keyOf(f) == label \o "_" \o f
        new == {keyOf(f) : f \in DOMAIN state}
    IN  [k \in DOMAIN target \cup new |->
            IF k \in new THEN state[CHOOSE f \in DOMAIN state : keyOf(f) = k]
            ELSE target[k]]

\* StimUnit.get_state(key, default)
GetState(state, key, default) == IF key \in DOMAIN state THEN state[key] ELSE default

\* StimUnit.add_stim(stim): what it does with None is the service's affair,
\* so both of its possible answers are kept
AddStimOutcomes(stim) == IF stim = NoneVal THEN {"added", "TypeError"} ELSE {"added"}

\* the state a unit holds after show()
ShowState(duration, onset_trigger) ==
    ("duration" :> duration) @@ ("onset_trigger" :> onset_trigger)

\* the state a unit holds after capture_response(): pressed is the key that
\* ended the phase (None at the deadline), judged the correctness the service
\* reports when there was no key to compare with correct_keys
CaptureState(duration, onset_trigger, correct_keys, response_trigger, pressed, judged) ==
    ("duration" :> duration) @@ ("onset_trigger" :> onset_trigger)
    @@ ("response" :> pressed)
    @@ ("hit" :> BoolVal(IF pressed # NoneVal THEN pressed = correct_keys ELSE judged))
    @@ ("response_trigger" :>
            IF pressed = NoneVal THEN NoneVal ELSE DictGet(response_trigger, pressed))

----------------------------------------------------------------------------
(* _next_trial_id *)

\* a variant with a slip: the counter is returned but not advanced
next_trial_id_stuck(counter) == counter

\* the value of _TRIAL_COUNTER after the call, which is also what it returns
next_trial_id(counter) == counter + 1

----------------------------------------------------------------------------
(* run_trial: constants of the code *)

Sep == "_"
Red == <<"red">>

fixation_label == "fixation"
stimulus_label == "stimulus"
\* a variant with a slip: the feedback unit reuses the stimulus unit's label
feedback_label_reused == "stimulus"
feedback_label == "feedback"
iti_label == "iti"

Fixation == StrVal(<<"fixation">>)
CorrectFeedback == StrVal(<<"correct", "_", "feedback">>)
IncorrectFeedback == StrVal(<<"incorrect", "_", "feedback">>)
NoResponseFeedback == StrVal(<<"no", "_", "response", "_", "feedback">>)

\* a variant with a slip: parts beyond the second are dropped, not refused
UnpacksFirstTwo(parts) == Len(parts) >= 2

\* line 41: the two targets of the assignment take exactly two parts
Unpacks(parts) == Len(parts) = 2

\* a variant with a slip: the response no longer ends the stimulus phase
TerminateOnResponseOff == FALSE

\* line 105
TerminateOnResponse == TRUE

\* a variant with a slip: the keys are swapped
CorrectResponseSwapped(stim_color) ==
    IF stim_color = StrVal(Red) THEN settings.right_key ELSE settings.left_key

\* line 42
CorrectResponse(stim_color) ==
    IF stim_color = StrVal(Red) THEN settings.left_key ELSE settings.right_key

\* a variant with a slip: the miss branch sends the trigger of the hit branch
FeedbackChoiceMixed(response, hit) ==
    IF Truthy(response) /\ Truthy(hit)
    THEN [stim_id |-> CorrectFeedback, trigger |-> "feedback_correct_response"]
    ELSE IF Truthy(response) /\ ~Truthy(hit)
    THEN [stim_id |-> IncorrectFeedback, trigger |-> "feedback_correct_response"]
    ELSE [stim_id |-> NoResponseFeedback, trigger |-> "feedback_no_response"]

\* lines 113-121: the bank key and the trigger name the branch taken looks up
FeedbackChoice(response, hit) ==
    IF Truthy(response) /\ Truthy(hit)
    THEN [stim_id |-> CorrectFeedback, trigger |-> "feedback_correct_response"]
    ELSE IF Truthy(response) /\ ~Truthy(hit)
    THEN [stim_id |-> IncorrectFeedback, trigger |-> "feedback_incorrect_response"]
    ELSE [stim_id |-> NoResponseFeedback, trigger |-> "feedback_no_response"]

\* a variant with a slip: the feedback is built before the response is captured
PhaseAfterEarlyFeedback(p) ==
    CASE p = "pre_stim_fixation" -> "feedback"
      [] p = "feedback" -> "simon_response"
      [] p = "simon_response" -> "inter_trial_interval"
      [] p = "inter_trial_interval" -> "done"

\* a variant with a slip: the record is left without the inter-trial interval
PhaseAfterNoIti(p) ==
    CASE p = "pre_stim_fixation" -> "simon_response"
      [] p = "simon_response" -> "feedback"
      [] p = "feedback" -> "done"
      [] p = "inter_trial_interval" -> "done"

\* the order of the statements of run_trial: the phase after phase p
PhaseAfter(p) ==
    CASE p = "pre_stim_fixation" -> "simon_response"
      [] p = "simon_response" -> "feedback"
      [] p = "feedback" -> "inter_trial_interval"
      [] p = "inter_trial_interval" -> "done"

----------------------------------------------------------------------------
(* What run_trial is called with *)

MaxTrials == 3

LeftKey == StrVal(<<"f">>)
RightKey == StrVal(<<"j">>)
SpaceKey == StrVal(<<"space">>)

RedLeft == StrVal(<<"red", "_", "left">>)
RedRight == StrVal(<<"red", "_", "right">>)
BlueLeft == StrVal(<<"blue", "_", "left">>)
BlueRight == StrVal(<<"blue", "_", "right">>)
GreenLeft == StrVal(<<"green", "_", "left">>)
RedOnly == StrVal(<<"red">>)
RedLeftTop == StrVal(<<"red", "_", "left", "_", "top">>)

WellFormed == {RedLeft, RedRight, BlueLeft, BlueRight}
Conditions == WellFormed \cup {GreenLeft, RedOnly, RedLeftTop}

\* the caller's (block_id, block_idx)
Blocks == {<<NoneVal, NoneVal>>, <<IntVal(2), IntVal(1)>>}

TriggerNames == {"fixation_onset", "stim_onset", "left_key_press", "right_key_press",
                 "feedback_correct_response", "feedback_incorrect_response",
                 "feedback_no_response"}

TriggerCode(name) ==
    CASE name = "fixation_onset" -> IntVal(1)
      [] name = "stim_onset" -> IntVal(10)
      [] name = "left_key_press" -> IntVal(30)
      [] name = "right_key_press" -> IntVal(31)
      [] name = "feedback_correct_response" -> IntVal(51)
      [] name = "feedback_incorrect_response" -> IntVal(52)
      [] name = "feedback_no_response" -> IntVal(53)

\* the trigger table: complete, or lacking one name
TriggerTables ==
    {[n \in TriggerNames \ missing |-> TriggerCode(n)] :
        missing \in {{}} \cup {{n} : n \in TriggerNames}}

\* the four durations: scalars; collections of candidates; a stimulus duration
\* that resolves to no deadline
DurationProfiles ==
    { [fixation |-> FloatVal(5), stim |-> FloatVal(10),
       feedback |-> FloatVal(5), iti |-> IntVal(10)],
      [fixation |-> ListVal(<<FloatVal(5), FloatVal(10)>>),
       stim |-> ListVal(<<FloatVal(10), FloatVal(25), FloatVal(5)>>),
       feedback |-> FloatVal(5), iti |-> FloatVal(5)],
      [fixation |-> FloatVal(5), stim |-> ListVal(<<>>),
       feedback |-> FloatVal(5), iti |-> FloatVal(5)] }

KeyLists == {<<LeftKey, RightKey>>, <<LeftKey, RightKey, SpaceKey>>}

SettingsBundles ==
    {[left_key |-> LeftKey, right_key |-> RightKey, key_list |-> ListVal(kl),
      fixation_duration |-> d.fixation, stim_duration |-> d.stim,
      feedback_duration |-> d.feedback, iti_duration |-> d.iti,
      triggers |-> tt] :
        kl \in KeyLists, d \in DurationProfiles, tt \in TriggerTables}

StimVal(key) == [t |-> "stim", key |-> key]

BankKeys == {Fixation, CorrectFeedback, IncorrectFeedback, NoResponseFeedback}
                \cup WellFormed \cup {GreenLeft}

\* the stimulus bank: complete, or lacking one key
StimBanks ==
    {[k \in BankKeys \ missing |-> StimVal(k)] :
        missing \in {{}} \cup {{k} : k \in {Fixation, RedLeft, CorrectFeedback,
                                            IncorrectFeedback, NoResponseFeedback}}}

NoDecode == [stim_color |-> NoneVal, stim_position |-> NoneVal, correct_response |-> NoneVal]
NoArgs == [condition |-> NoneVal, block_id |-> NoneVal, block_idx |-> NoneVal]
NoOutcome == [kind |-> "none"]
Empty == <<>>
NoThreads == <<>>

----------------------------------------------------------------------------
(* run_trial *)

Init ==
    /\ TRIAL_COUNTER = 0
    /\ settings \in SettingsBundles
    /\ stim_bank \in StimBanks
    /\ pc = "idle"
    /\ args = NoArgs
    /\ trial_id = 0
    /\ decoded = NoDecode
    /\ trial_data = Empty
    /\ stim_unit = Empty
    /\ contexts = <<>>
    /\ presented = <<>>
    /\ outcome = NoOutcome
    /\ assigned = <<>>
    /\ returned_ids = <<>>
    /\ threads = NoThreads
    /\ dl_value = NoneVal
    /\ dl_result = Pending

\* the context set_trial_context attaches to a unit (lines 54-70, 78-95)
Context(label, phase, duration, stim_id, with_correct_key) ==
    [unit |-> label,
     trial_id |-> trial_id,
     phase |-> phase,
     deadline_s |-> deadline_s(duration),
     valid_keys |-> settings.key_list,
     block_id |-> args.block_id,
     condition_id |-> args.condition,
     stim_id |-> stim_id,
     task_factors |->
        [condition |-> args.condition, stage |-> phase,
         stim_color |-> decoded.stim_color, stim_position |-> decoded.stim_position,
         block_idx |-> args.block_idx,
         correct_key |-> IF with_correct_key THEN decoded.correct_response ELSE NoneVal]]

\* an exception leaves run_trial: the caller gets no record
Raise(exc) ==
    /\ pc' = "raised"
    /\ outcome' = [kind |-> "raised", exc |-> exc]

\* lines 37-50: a call enters run_trial, takes its trial id, seeds the record
\* and decodes the condition; the unpacking of line 41 needs exactly two parts
Start ==
    /\ pc \in {"idle", "done", "raised"}
    /\ Len(assigned) < MaxTrials
    /\ \E condition \in Conditions, block \in Blocks :
        LET parts == Split(condition.s, Sep)
            color == StrVal(parts[1])
            position == StrVal(parts[2])
            seed == ("condition" :> condition)
        IN  /\ TRIAL_COUNTER' = next_trial_id(TRIAL_COUNTER)
            /\ trial_id' = TRIAL_COUNTER'
            /\ assigned' = Append(assigned, TRIAL_COUNTER')
            /\ args' = [condition |-> condition, block_id |-> block[1],
                        block_idx |-> block[2]]
            /\ stim_unit' = Empty
            /\ contexts' = <<>>
            /\ presented' = <<>>
            /\ IF ~Unpacks(parts)
               THEN /\ Raise("ValueError")
                    /\ decoded' = NoDecode
                    /\ trial_data' = seed
               ELSE /\ pc' = "pre_stim_fixation"
                    /\ outcome' = NoOutcome
                    /\ decoded' = [stim_color |-> color, stim_position |-> position,
                                   correct_response |-> CorrectResponse(color)]
                    /\ trial_data' =
                         ("stim_color" :> color) @@ ("stim_position" :> position)
                         @@ ("correct_response" :> CorrectResponse(color)) @@ seed
    /\ UNCHANGED <<settings, stim_bank, returned_ids, aux_vars>>

\* lines 52-74: the fixation unit is built, given its context and shown
PreStimFixation ==
    /\ pc = "pre_stim_fixation"
    /\ LET stim == DictGet(stim_bank, Fixation)
           trigger == DictGet(settings.triggers, "fixation_onset")
           state == ShowState(settings.fixation_duration, trigger)
       IN  \E added \in AddStimOutcomes(stim) :
             IF added # "added"
             THEN /\ Raise(added)
                  /\ UNCHANGED <<trial_data, contexts, presented>>
             ELSE /\ contexts' = Append(contexts,
                        Context(fixation_label, "pre_stim_fixation",
                                settings.fixation_duration, Fixation, FALSE))
                  /\ presented' = Append(presented,
                        [unit |-> fixation_label, call |-> "show",
                         stim_id |-> Fixation, stim |-> stim,
                         duration |-> settings.fixation_duration,
                         trigger_name |-> "fixation_onset", onset_trigger |-> trigger,
                         result |-> state])
                  /\ trial_data' = ToDict(fixation_label, state, trial_data)
                  /\ pc' = PhaseAfter("pre_stim_fixation")
                  /\ UNCHANGED outcome
    /\ UNCHANGED <<TRIAL_COUNTER, settings, stim_bank, args, trial_id, decoded,
                   stim_unit, assigned, returned_ids, aux_vars>>

\* lines 76-107: the stimulus unit is built, given its context, and captures
\* the response: a key of key_list, or none before the deadline
SimonResponse ==
    /\ pc = "simon_response"
    /\ LET stim == DictGet(stim_bank, args.condition)
           trigger == DictGet(settings.triggers, "stim_onset")
           response_trigger ==
               (settings.right_key :> DictGet(settings.triggers, "right_key_press"))
               @@ (settings.left_key :> DictGet(settings.triggers, "left_key_press"))
       IN  \E added \in AddStimOutcomes(stim) :
             IF added # "added"
             THEN /\ Raise(added)
                  /\ UNCHANGED <<trial_data, stim_unit, contexts, presented>>
             ELSE \E pressed \in Range(settings.key_list.items) \cup {NoneVal},
                     judged \in BOOLEAN :
                  LET state == CaptureState(settings.stim_duration, trigger,
                                   decoded.correct_response, response_trigger,
                                   pressed, judged)
                  IN  /\ pressed # NoneVal => judged
                      /\ contexts' = Append(contexts,
                            Context(stimulus_label, "simon_response",
                                    settings.stim_duration, args.condition, TRUE))
                      /\ presented' = Append(presented,
                            [unit |-> stimulus_label, call |-> "capture_response",
                             stim_id |-> args.condition, stim |-> stim,
                             duration |-> settings.stim_duration,
                             trigger_name |-> "stim_onset", onset_trigger |-> trigger,
                             keys |-> settings.key_list,
                             correct_keys |-> decoded.correct_response,
                             response_trigger |-> response_trigger,
                             terminate_on_response |-> TerminateOnResponse,
                             result |-> state])
                      /\ stim_unit' = state
                      /\ trial_data' = ToDict(stimulus_label, state, trial_data)
                      /\ pc' = PhaseAfter("simon_response")
                      /\ UNCHANGED outcome
    /\ UNCHANGED <<TRIAL_COUNTER, settings, stim_bank, args, trial_id, decoded,
                   assigned, returned_ids, aux_vars>>

\* a variant with a slip: the feedback block takes a trial id of its own
FeedbackFrameCounting ==
    /\ TRIAL_COUNTER' = next_trial_id(TRIAL_COUNTER)
    /\ UNCHANGED <<settings, stim_bank, args, trial_id, decoded,
                   stim_unit, contexts, assigned, returned_ids, aux_vars>>

\* lines 109-126 assign only feedback_stim, feedback_trigger and trial_data:
\* what the feedback block leaves as it was
FeedbackFrame ==
    UNCHANGED <<TRIAL_COUNTER, settings, stim_bank, args, trial_id, decoded,
                stim_unit, contexts, assigned, returned_ids, aux_vars>>

\* lines 109-126: the outcome is read from the stimulus unit, the feedback pair
\* is looked up and the feedback unit is shown
Feedback ==
    /\ pc = "feedback"
    /\ LET response == GetState(stim_unit, "response", BoolVal(FALSE))
           hit == GetState(stim_unit, "hit", BoolVal(FALSE))
           choice == FeedbackChoice(response, hit)
           feedback_stim == DictGet(stim_bank, choice.stim_id)
           feedback_trigger == DictGet(settings.triggers, choice.trigger)
           state == ShowState(settings.feedback_duration, feedback_trigger)
       IN  \E added \in AddStimOutcomes(feedback_stim) :
             IF added # "added"
             THEN /\ Raise(added)
                  /\ UNCHANGED <<trial_data, presented>>
             ELSE /\ presented' = Append(presented,
                        [unit |-> feedback_label, call |-> "show",
                         stim_id |-> choice.stim_id, stim |-> feedback_stim,
                         duration |-> settings.feedback_duration,
                         trigger_name |-> choice.trigger,
                         onset_trigger |-> feedback_trigger,
                         result |-> state])
                  /\ trial_data' = ToDict(feedback_label, state, trial_data)
                  /\ pc' = PhaseAfter("feedback")
                  /\ UNCHANGED outcome
    /\ FeedbackFrame

\* lines 128-130: the inter-trial interval is shown, with no stimulus and no
\* trigger, and the record is returned
InterTrialInterval ==
    /\ pc = "inter_trial_interval"
    /\ LET state == ShowState(settings.iti_duration, NoneVal)
       IN  /\ presented' = Append(presented,
                  [unit |-> iti_label, call |-> "show",
                   stim_id |-> NoneVal, stim |-> NoneVal,
                   duration |-> settings.iti_duration,
                   trigger_name |-> "", onset_trigger |-> NoneVal,
                   result |-> state])
           /\ trial_data' = ToDict(iti_label, state, trial_data)
           /\ pc' = PhaseAfter("inter_trial_interval")
           /\ outcome' = [kind |-> "returned", record |-> trial_data']
    /\ returned_ids' = Append(returned_ids, trial_id)
    /\ UNCHANGED <<TRIAL_COUNTER, settings, stim_bank, args, trial_id, decoded,
                   stim_unit, contexts, assigned, aux_vars>>

Next ==
    \/ Start
    \/ PreStimFixation
    \/ SimonResponse
    \/ Feedback
    \/ InterTrialInterval

Spec == Init /\ [][Next]_vars

----------------------------------------------------------------------------
(* _deadline_s on its own, applied once to a duration specification *)

InitDeadline ==
    /\ dl_value \in DurationSpecs
    /\ dl_result = Pending
    /\ TRIAL_COUNTER = 0
    /\ settings = [left_key |-> LeftKey, right_key |-> RightKey,
                   key_list |-> ListVal(<<LeftKey, RightKey>>),
                   fixation_duration |-> dl_value, stim_duration |-> dl_value,
                   feedback_duration |-> dl_value, iti_duration |-> dl_value,
                   triggers |-> [n \in TriggerNames |-> TriggerCode(n)]]
    /\ stim_bank = [k \in BankKeys |-> StimVal(k)]
    /\ pc = "idle"
    /\ args = NoArgs
    /\ trial_id = 0
    /\ decoded = NoDecode
    /\ trial_data = Empty
    /\ stim_unit = Empty
    /\ contexts = <<>>
    /\ presented = <<>>
    /\ outcome = NoOutcome
    /\ assigned = <<>>
    /\ returned_ids = <<>>
    /\ threads = NoThreads

Resolve ==
    /\ dl_result = Pending
    /\ dl_result' = deadline_s(dl_value)
    /\ UNCHANGED <<dl_value, trial_vars, threads>>

NextDeadline == Resolve

SpecDeadline == InitDeadline /\ [][NextDeadline]_vars

----------------------------------------------------------------------------
(* _next_trial_id entered by several threads at once.  Line 11 reads the    *)
(* global, adds one and writes it back, and line 12 reads it again for the  *)
(* return value; nothing keeps another thread from running in between.      *)

MaxThreads == 3

Threads == 1..MaxThreads

CompleteTriggers == [n \in TriggerNames |-> TriggerCode(n)]
CompleteBank == [k \in BankKeys |-> StimVal(k)]

InitConcurrent ==
    /\ TRIAL_COUNTER = 0
    /\ threads = [t \in Threads |-> [pc |-> "call", loaded |-> 0, id |-> 0]]
    /\ settings \in {b \in SettingsBundles : b.triggers = CompleteTriggers}
    /\ stim_bank = CompleteBank
    /\ pc = "idle"
    /\ args = NoArgs
    /\ trial_id = 0
    /\ decoded = NoDecode
    /\ trial_data = Empty
    /\ stim_unit = Empty
    /\ contexts = <<>>
    /\ presented = <<>>
    /\ outcome = NoOutcome
    /\ assigned = <<>>
    /\ returned_ids = <<>>
    /\ dl_value = NoneVal
    /\ dl_result = Pending

\* line 11, the read of _TRIAL_COUNTER
LoadCounter(t) ==
    /\ threads[t].pc = "call"
    /\ threads' = [threads EXCEPT ![t].pc = "loaded", ![t].loaded = TRIAL_COUNTER]
    /\ UNCHANGED <<trial_vars, dl_vars>>

\* line 11, the write of the value read plus one
StoreCounter(t) ==
    /\ threads[t].pc = "loaded"
    /\ TRIAL_COUNTER' = next_trial_id(threads[t].loaded)
    /\ threads' = [threads EXCEPT ![t].pc = "stored"]
    /\ UNCHANGED <<settings, stim_bank, pc, args, trial_id, decoded, trial_data,
                   stim_unit, contexts, presented, outcome, assigned,
                   returned_ids, dl_vars>>

\* line 12, the read that is returned as the trial id
ReturnCounter(t) ==
    /\ threads[t].pc = "stored"
    /\ threads' = [threads EXCEPT ![t].pc = "returned", ![t].id = TRIAL_COUNTER]
    /\ UNCHANGED <<trial_vars, dl_vars>>

NextConcurrent ==
    \E t \in Threads :
       \/ LoadCounter(t)
       \/ StoreCounter(t)
       \/ ReturnCounter(t)

SpecConcurrent == InitConcurrent /\ [][NextConcurrent]_vars

----------------------------------------------------------------------------
(* run_trial with the progress its waits guarantee: a phase whose duration  *)
(* resolves to a deadline ends, by a key or by the deadline.  Nothing       *)
(* obliges a caller to call again, and a wait without a deadline may last.  *)

Resolves(duration) == deadline_s(duration) # NoneVal

InitLive ==
    /\ Init
    /\ settings.triggers = CompleteTriggers

SpecLive ==
    /\ InitLive
    /\ [][Next]_vars
    /\ WF_vars(PreStimFixation /\ Resolves(settings.fixation_duration))
    /\ WF_vars(SimonResponse /\ Resolves(settings.stim_duration))
    /\ WF_vars(Feedback /\ Resolves(settings.feedback_duration))
    /\ WF_vars(InterTrialInterval /\ Resolves(settings.iti_duration))

----------------------------------------------------------------------------
(* Properties *)

Units == {presented[i].unit : i \in 1..Len(presented)}
Shown(label) == \E i \in 1..Len(presented) : presented[i].unit = label
MaxOf(S) == CHOOSE m \in S : \A x \in S : x <= m
Parts == Split(args.condition.s, Sep)

\* C1: the phases of an invocation are presented in the order fixation,
\* stimulus/response, feedback, inter-trial interval, one at a time; an
\* invocation that completes has presented all four; and the feedback is only
\* chosen once the response capture has finished and left its result.
C1_PhasesInOrder ==
    /\ Len(presented) <= 4
    /\ \A i \in 1..Len(presented) :
          presented[i].unit = <<"fixation", "stimulus", "feedback", "iti">>[i]
    /\ pc = "done" => Len(presented) = 4 /\ outcome.kind = "returned"
    /\ outcome.kind = "returned" => pc = "done"
    /\ \A i \in 1..Len(presented) :
          presented[i].unit = "feedback" =>
             /\ i > 1
             /\ presented[i - 1].call = "capture_response"
             /\ presented[i - 1].result = stim_unit
             /\ "response" \in DOMAIN stim_unit /\ "hit" \in DOMAIN stim_unit

C1_Witness ==
    /\ pc = "done"
    /\ Len(presented) = 4
    /\ presented[3].unit = "feedback"

\* C2: the feedback shown is the one of the outcome the capture left behind:
\* response and hit give correct_feedback / feedback_correct_response,
\* response and no hit give incorrect_feedback / feedback_incorrect_response,
\* no response gives no_response_feedback / feedback_no_response whatever the
\* hit flag says; stimulus and trigger are those the bank and the trigger
\* table hold under these names.
C2_FeedbackMatchesOutcome ==
    \A i \in 1..Len(presented) :
       presented[i].unit = "feedback" =>
          LET responded == Truthy(stim_unit["response"])
              correct == Truthy(stim_unit["hit"])
              stim_id == IF responded /\ correct THEN CorrectFeedback
                         ELSE IF responded THEN IncorrectFeedback
                         ELSE NoResponseFeedback
              name == IF responded /\ correct THEN "feedback_correct_response"
                      ELSE IF responded THEN "feedback_incorrect_response"
                      ELSE "feedback_no_response"
          IN  /\ presented[i].stim_id = stim_id
              /\ presented[i].trigger_name = name
              /\ presented[i].stim = DictGet(stim_bank, stim_id)
              /\ presented[i].onset_trigger = DictGet(settings.triggers, name)

C2_Witness ==
    /\ Shown("feedback")
    /\ stim_unit["response"] = LeftKey
    /\ stim_unit["hit"] = BoolVal(FALSE)
    /\ presented[3].stim = StimVal(IncorrectFeedback)
    /\ presented[3].onset_trigger = TriggerCode("feedback_incorrect_response")

\* C3: for a condition whose colour is red or blue, the correct response is
\* left_key exactly when the colour is red and right_key exactly when it is
\* blue, and it is this key that the record holds and the capture is given.
C3_CorrectResponse ==
    decoded.stim_color \in {StrVal(<<"red">>), StrVal(<<"blue">>)} =>
       /\ decoded.correct_response = settings.left_key
             <=> decoded.stim_color = StrVal(<<"red">>)
       /\ decoded.correct_response = settings.right_key
             <=> decoded.stim_color = StrVal(<<"blue">>)
       /\ trial_data["correct_response"] = decoded.correct_response
       /\ \A i \in 1..Len(presented) :
             presented[i].call = "capture_response" =>
                presented[i].correct_keys = decoded.correct_response

C3_Witness ==
    /\ args.condition = BlueLeft
    /\ Shown("stimulus")
    /\ presented[2].correct_keys = RightKey
    /\ trial_data["correct_response"] = RightKey

\* C4 (as claimed): a condition that splits into two factors but whose colour
\* is neither red nor blue fails with InvalidCondition, before any phase is
\* presented and without a correct response or a record.
C4_UnknownColourRejected ==
    (pc # "idle" /\ Len(Parts) = 2 /\ Parts[1] \notin {<<"red">>, <<"blue">>}) =>
       /\ outcome = [kind |-> "raised", exc |-> "InvalidCondition"]
       /\ presented = <<>>
       /\ decoded.correct_response = NoneVal

\* C5: the identifiers handed out are 1, 2, ..., N in this order, the counter
\* stands at the number of invocations made so far, failed ones included, and
\* the running invocation holds the last identifier.
C5_TrialIds ==
    /\ assigned = [i \in 1..Len(assigned) |-> i]
    /\ TRIAL_COUNTER = Len(assigned)
    /\ trial_id = TRIAL_COUNTER

C5_Witness ==
    /\ Len(assigned) = 3
    /\ pc = "raised"
    /\ outcome.exc = "ValueError"

\* C6 (as claimed): the record returned holds the invocation's trial id under
\* trial_id.
C6_RecordHasTrialId ==
    outcome.kind = "returned" =>
       /\ "trial_id" \in DOMAIN outcome.record
       /\ outcome.record["trial_id"] = IntVal(trial_id)

\* C7: every field a phase produced is in the record under the phase's unit
\* label with the value the phase produced, the seeded fields keep their
\* values, and the record returned has the four seeded fields and the fields
\* of four units with distinct labels, none lost to a collision.
C7_PhasesMerged ==
    /\ \A i \in 1..Len(presented) : \A f \in DOMAIN presented[i].result :
          LET k == presented[i].unit \o "_" \o f
          IN  k \in DOMAIN trial_data /\ trial_data[k] = presented[i].result[f]
    /\ decoded # NoDecode =>
          /\ trial_data["condition"] = args.condition
          /\ trial_data["stim_color"] = decoded.stim_color
          /\ trial_data["stim_position"] = decoded.stim_position
          /\ trial_data["correct_response"] = decoded.correct_response
    /\ outcome.kind = "returned" =>
          /\ outcome.record = trial_data
          /\ Units = {"fixation", "stimulus", "feedback", "iti"}
          /\ Cardinality(DOMAIN outcome.record) =
                4 + Cardinality(DOMAIN presented[1].result)
                  + Cardinality(DOMAIN presented[2].result)
                  + Cardinality(DOMAIN presented[3].result)
                  + Cardinality(DOMAIN presented[4].result)

C7_Witness ==
    /\ outcome.kind = "returned"
    /\ {"fixation_duration", "stimulus_response", "feedback_onset_trigger",
        "iti_duration", "stim_color"} \subseteq DOMAIN outcome.record

\* C8: a numeric scalar resolves to itself as a float, and a non-empty
\* collection of numbers to its greatest value as a float, wherever in the
\* collection that value stands.
C8_DeadlineOfNumbers ==
    dl_result # Pending =>
       /\ IsNumber(dl_value) => dl_result = FloatVal(dl_value.v)
       /\ ( /\ dl_value.t = "list"
            /\ dl_value.items # <<>>
            /\ \A i \in 1..Len(dl_value.items) : IsNumber(dl_value.items[i]) )
          => dl_result = FloatVal(MaxOf({dl_value.items[i].v :
                                            i \in 1..Len(dl_value.items)}))

C8_Witness ==
    /\ dl_value = ListVal(<<FloatVal(10), FloatVal(25), FloatVal(5)>>)
    /\ dl_result = FloatVal(25)

\* C9 (as claimed): an empty collection, a scalar that is no number and a
\* collection holding an element that is no number all resolve to None.
C9_MalformedGivesNone ==
    ( /\ dl_result # Pending
      /\ \/ dl_value.t \notin {"int", "float", "list"}
         \/ /\ dl_value.t = "list"
            /\ \/ dl_value.items = <<>>
               \/ \E i \in 1..Len(dl_value.items) : ~IsNumber(dl_value.items[i]) )
    => dl_result = NoneVal

\* C10 (as claimed): no phase that has a stimulus or an onset trigger to look
\* up is presented with None in its place.
C10_NoPlaceholderPresented ==
    \A i \in 1..Len(presented) :
       presented[i].unit # "iti" =>
          /\ presented[i].stim # NoneVal
          /\ presented[i].onset_trigger # NoneVal

\* C11 (as claimed): the capture emits a response trigger exactly when a key
\* ended the phase, it is left_key_press for left_key and right_key_press for
\* right_key, and every key of key_list has a response trigger to emit.
C11_ResponseTrigger ==
    \A i \in 1..Len(presented) :
       presented[i].call = "capture_response" =>
          LET r == presented[i].result
          IN  /\ r["response_trigger"] # NoneVal <=> r["response"] # NoneVal
              /\ r["response"] = settings.left_key =>
                    r["response_trigger"] = TriggerCode("left_key_press")
              /\ r["response"] = settings.right_key =>
                    r["response_trigger"] = TriggerCode("right_key_press")
              /\ \A k \in Range(presented[i].keys.items) :
                    DictGet(presented[i].response_trigger, k) # NoneVal

\* C12 (as claimed): only the context of the response phase carries key_list
\* as its valid keys; the context of any other phase carries an empty list.
C12_ValidKeysOnlyForResponse ==
    \A i \in 1..Len(contexts) :
       contexts[i].valid_keys =
          IF contexts[i].phase = "simon_response" THEN settings.key_list
          ELSE ListVal(<<>>)

\* C13 (as claimed): every phase presented has had a context built for its
\* unit, carrying the invocation's trial id.
C13_EveryPhaseHasContext ==
    \A i \in 1..Len(presented) :
       \E j \in 1..Len(contexts) :
          /\ contexts[j].unit = presented[i].unit
          /\ contexts[j].trial_id = trial_id

\* C14 (as claimed): the caller's block_id and block_idx are in every phase
\* context and in the record returned, as they were passed.
C14_BlockPassedThrough ==
    /\ \A i \in 1..Len(contexts) :
          /\ contexts[i].block_id = args.block_id
          /\ contexts[i].task_factors.block_idx = args.block_idx
    /\ outcome.kind = "returned" =>
          /\ "block_id" \in DOMAIN outcome.record
          /\ "block_idx" \in DOMAIN outcome.record
          /\ outcome.record["block_id"] = args.block_id
          /\ outcome.record["block_idx"] = args.block_idx

\* the duration setting a unit is shown with
SettingOf(unit) ==
    CASE unit = "fixation" -> settings.fixation_duration
      [] unit = "stimulus" -> settings.stim_duration
      [] unit = "feedback" -> settings.feedback_duration
      [] unit = "iti" -> settings.iti_duration

\* a == b
PyEq(a, b) == IF IsNumber(a) /\ IsNumber(b) THEN a.v = b.v ELSE a = b

\* C18 (as claimed): a phase whose duration setting resolves to a deadline is
\* run with that deadline as its duration, and a context built for it exposes
\* the same value.
C18_DurationIsDeadline ==
    \A i \in 1..Len(presented) :
       LET deadline == deadline_s(SettingOf(presented[i].unit))
       IN  deadline # NoneVal =>
              /\ PyEq(presented[i].duration, deadline)
              /\ \A j \in 1..Len(contexts) :
                    contexts[j].unit = presented[i].unit =>
                       PyEq(contexts[j].deadline_s, presented[i].duration)

\* C15: no step of run_trial changes the settings bundle (its trigger table
\* included) or the stimulus bank, and the trial-id counter changes only in
\* the step that enters an invocation and allocates its id, by one; the
\* phases and the choice of feedback leave it alone.
C15_OnlyCounterMutated ==
    [][ /\ settings' = settings
        /\ stim_bank' = stim_bank
        /\ TRIAL_COUNTER' # TRIAL_COUNTER =>
              /\ pc \in {"idle", "done", "raised"}
              /\ TRIAL_COUNTER' = TRIAL_COUNTER + 1
              /\ trial_id' = TRIAL_COUNTER'
              /\ assigned' = Append(assigned, TRIAL_COUNTER') ]_vars

C15_Witness ==
    /\ pc = "done"
    /\ TRIAL_COUNTER = 1
    /\ Len(presented) = 4
    /\ stim_unit["response"] = RightKey

\* C16 (as claimed): with several invocations inside _next_trial_id at once,
\* no two of them are handed the same trial id, and the counter stands at the
\* number of increments made.
C16_AtomicIncrement ==
    /\ \A t1, t2 \in DOMAIN threads :
          (t1 # t2 /\ threads[t1].pc = "returned" /\ threads[t2].pc = "returned")
             => threads[t1].id # threads[t2].id
    /\ TRIAL_COUNTER =
          Cardinality({t \in DOMAIN threads : threads[t].pc \in {"stored", "returned"}})

AllResolve ==
    /\ Resolves(settings.fixation_duration)
    /\ Resolves(settings.stim_duration)
    /\ Resolves(settings.feedback_duration)
    /\ Resolves(settings.iti_duration)

BankHolds ==
    {Fixation, CorrectFeedback, IncorrectFeedback, NoResponseFeedback, args.condition}
       \subseteq DOMAIN stim_bank

\* C19 (as claimed): an invocation with a well-formed condition and four
\* durations that resolve never ends without returning its record.
C19_NeverEndsWithoutRecord ==
    (pc = "raised" /\ args.condition \in WellFormed) => ~AllResolve

\* C19 (amended): with a well-formed condition, four durations that resolve
\* and a bank holding the fixation, the condition's stimulus and the three
\* feedback stimuli, an invocation that has been entered finishes its
\* inter-trial interval and returns its record, whatever is or is not
\* pressed; and a record is only ever returned with the inter-trial interval
\* presented as the fourth and last phase.
C19_EventuallyReturns ==
    /\ [](outcome.kind = "returned" =>
             /\ pc = "done"
             /\ Len(presented) = 4
             /\ presented[4].unit = "iti")
    /\ (pc = "pre_stim_fixation" /\ args.condition \in WellFormed
           /\ AllResolve /\ BankHolds)
          ~> (pc = "done" /\ outcome.kind = "returned")

C19_Witness ==
    /\ pc = "done"
    /\ outcome.kind = "returned"
    /\ args.condition \in WellFormed
    /\ AllResolve
    /\ BankHolds
    /\ stim_unit["response"] = NoneVal

\* C20: an invocation whose condition does not split into exactly two factors
\* ends with ValueError before any phase is presented, any context is set or
\* any record is returned, with the counter already advanced to its id; so
\* the ids of returned records may skip numbers, yet they strictly increase,
\* none repeats, and none exceeds the counter.
C20_MalformedFailsAfterCounting ==
    /\ (pc # "idle" /\ Len(Parts) # 2) =>
          /\ pc = "raised"
          /\ outcome = [kind |-> "raised", exc |-> "ValueError"]
          /\ presented = Empty
          /\ contexts = Empty
          /\ decoded = NoDecode
          /\ trial_id = TRIAL_COUNTER
          /\ TRIAL_COUNTER = Len(assigned)
          /\ \A i \in 1..Len(returned_ids) : returned_ids[i] # trial_id
    /\ \A i \in 1..Len(returned_ids) :
          /\ returned_ids[i] \in 1..TRIAL_COUNTER
          /\ \A j \in 1..Len(returned_ids) : i < j => returned_ids[i] < returned_ids[j]

C20_Witness ==
    /\ pc = "raised"
    /\ outcome = [kind |-> "raised", exc |-> "ValueError"]
    /\ args.condition = RedLeftTop
    /\ returned_ids = <<1>>
    /\ trial_id = 2
    /\ TRIAL_COUNTER = 2

====
